---- MODULE Spec2Model ----
(***************************************************************************)
(* Knowledge Graph of Thoughts: the graph store (labeled-property,         *)
(* in-memory and triple-store backends), the tool-result cache and the     *)
(* iterative controller, modelled from the Python sources.                 *)
(***************************************************************************)
EXTENDS Integers, Sequences, FiniteSets, TLC

(***************************************************************************)
(* Bounds of the model.                                                    *)
(***************************************************************************)
MaxNode == 2
MaxScriptLen == 2
MaxSnapshots == 2
MaxIndex == 0
MaxElems == 2
MaxTimesToFix == 2
MaxPythonCalls == 2

(***************************************************************************)
(* Python values that travel between the graph store and the controller.   *)
(***************************************************************************)
PyNone == [t |-> "none", s |-> "", v |-> <<>>]
PyStr(s) == [t |-> "str", s |-> s, v |-> <<>>]
PyList(xs) == [t |-> "list", s |-> "", v |-> xs]
PyDict(xs) == [t |-> "dict", s |-> "", v |-> xs]

\* utils.is_empty_solution
RECURSIVE is_empty_solution(_)
is_empty_solution_falsy(solution) ==
    solution.t = "none" \/ (solution.s = "" /\ solution.v = <<>>)

is_empty_solution(solution) ==
    IF solution.t = "none" THEN TRUE
    ELSE IF solution.t = "dict"
         THEN solution.v = <<>> \/ \A i \in 1..Len(solution.v) : is_empty_solution(solution.v[i])
    ELSE IF solution.t = "list"
         THEN solution.v = <<>> \/ \A i \in 1..Len(solution.v) : is_empty_solution(solution.v[i])
    ELSE FALSE

(***************************************************************************)
(* Graph content and the query scripts the oracle writes.                  *)
(***************************************************************************)
Nodes == 1..MaxNode

EmptyGraph == [nodes |-> {}, edges |-> {}]

St(op, a, b) == [op |-> op, a |-> a, b |-> b]

\* result kinds a script can bind: 0 = None, 1 = empty list, 2 = the node list
ResultKinds == {0, 1, 2}

Stmts ==
    {St("add_node", n, 0) : n \in Nodes}
    \cup {St("add_edge", 1, n) : n \in Nodes \ {1}}
    \cup {St("remove_node", n, 0) : n \in Nodes}
    \cup {St("raise", 0, 0)}
    \cup {St("result", k, 0) : k \in ResultKinds}

RECURSIVE SeqsUpTo(_, _)
SeqsUpTo(S, n) ==
    IF n = 0 THEN {<<>>}
    ELSE LET shorter == SeqsUpTo(S, n - 1)
         IN  shorter \cup {Append(s, x) : s \in {t \in shorter : Len(t) = n - 1}, x \in S}

Scripts == SeqsUpTo(Stmts, MaxScriptLen)

\* a query the caller passes as Python None
NoneQuery == <<St("none", 0, 0)>>

Queries == Scripts \cup {NoneQuery}

\* the scripts a write is given: statements that change the graph, or raise
WriteStmts == {st \in Stmts : st.op # "result"}
WriteQueries == SeqsUpTo(WriteStmts, MaxScriptLen) \cup {NoneQuery}

\* what a script bound to `result`: the kind and the number of nodes it saw
Unbound == [k |-> -1, n |-> 0]
Bound(g, k) == [k |-> k, n |-> Cardinality(g.nodes)]

\* one statement of a script applied to the graph it has a handle on;
\* removing a node that is not there raises (networkx.NetworkXError)
StmtRaises(g, st) ==
    \/ st.op = "raise"
    \/ st.op = "remove_node" /\ st.a \notin g.nodes

StmtApply(g, st) ==
    IF st.op = "add_node" THEN [g EXCEPT !.nodes = @ \cup {st.a}]
    ELSE IF st.op = "add_edge"
         THEN [nodes |-> g.nodes \cup {st.a, st.b}, edges |-> g.edges \cup {<<st.a, st.b>>}]
    ELSE IF st.op = "remove_node"
         THEN [nodes |-> g.nodes \ {st.a},
               edges |-> {e \in g.edges : e[1] # st.a /\ e[2] # st.a}]
    ELSE g

\* exec(query, ...): runs the statements in order until one raises
RECURSIVE ExecFrom(_, _, _, _)
ExecFrom(g, script, i, res) ==
    IF i > Len(script) THEN [g |-> g, raised |-> FALSE, result |-> res, ran |-> i - 1]
    ELSE IF StmtRaises(g, script[i]) THEN [g |-> g, raised |-> TRUE, result |-> res, ran |-> i - 1]
    ELSE ExecFrom(StmtApply(g, script[i]), script, i + 1,
                  IF script[i].op = "result" THEN Bound(g, script[i].a) ELSE res)

Exec(g, script) == ExecFrom(g, script, 1, Unbound)

(***************************************************************************)
(* State of the graph store.                                               *)
(***************************************************************************)
VARIABLES
    db_choice,            \* which KnowledgeGraph class is loaded
    G,                    \* the graph (self.G, or the content of the server)
    current_snapshot_id,
    current_folder_name,
    dirs,                 \* directories that exist, <<root, folder>>
    files,                \* snapshot files written, <<root, folder, id>>
    kg_ret,               \* what the last graph-store call returned
    State,                \* the process-wide State class: the memo of knowledge_graph
                          \* and the graph attribute of the controllers made so far
    python_tool           \* the RunPythonCodeTool instance: its fields

kgvars == <<db_choice, G, current_snapshot_id, current_folder_name, dirs, files, kg_ret,
            State, python_tool>>

Backends == {"neo4j", "networkX", "rdf4j"}

SnapRootNeo4j == "containers/neo4j/snapshots"
SnapRootKgot == "kgot/knowledge_graph/_snapshots"
Neo4jImportRoot == "neo4j-import"

\* the controllers one process makes, and the arguments they hand to
\* State.knowledge_graph: db_choice, neo4j_uri, neo4j_username, neo4j_pwd
Controllers == {1, 2}
CtorArgs == {<<"neo4j", "bolt://a", "neo4j", "pwd">>, <<"neo4j", "bolt://b", "neo4j", "pwd">>}
NoGraph == <<>>

\* KnowledgeGraph.__init__: what a new instance holds
NewInstance == [G |-> EmptyGraph, current_snapshot_id |-> 0, current_folder_name |-> <<"", 0>>]

\* no RunPythonCodeTool made
NoPythonTool == [try_to_fix |-> FALSE, times_to_fix |-> 0, given |-> 0, calls |-> 0]

\* no controller made yet, nothing memoized
NoState == [knowledge_graph |-> <<>>, graph |-> [c \in Controllers |-> NoGraph],
            by |-> 0, op |-> ""]

\* snapshot folders: the sub-directory the caller passes and the run index
SubDirs == {""}
Folders == {<<sub, idx>> : sub \in SubDirs, idx \in 0..MaxIndex}

\* a return: raised = an exception left the call; ran = statements executed
Ret(op, ok, payload, err, raised, ran) ==
    [op |-> op, ok |-> ok, payload |-> payload, err |-> err, raised |-> raised, ran |-> ran]

\* what the external server can do to a write (transaction, then export) and to a read
WriteEnv(db) ==
    IF db = "networkX" THEN {"ok"}
    ELSE IF db = "rdf4j" THEN {"ok", "tx_unavailable"}
    ELSE {"ok", "tx_client_error", "tx_unavailable", "export_client_error", "export_unavailable"}

ReadEnv(db) ==
    IF db = "networkX" THEN {"ok"}
    ELSE IF db = "rdf4j" THEN {"ok", "unavailable"}
    ELSE {"ok", "client_error", "unavailable"}

\* _create_folder's root directory, per backend
CreateRoot(db) == IF db = "rdf4j" THEN SnapRootKgot ELSE SnapRootNeo4j

init_db_keeps_graph(index, snapshot_subdir) ==
    /\ G' = G
    /\ current_folder_name' = <<snapshot_subdir, index>>
    /\ dirs' = dirs \cup {<<CreateRoot(db_choice), <<snapshot_subdir, index>>>>}
    /\ current_snapshot_id' = 0
    /\ kg_ret' = Ret("init", TRUE, PyNone, "", FALSE, 0)
    /\ UNCHANGED <<python_tool, State, db_choice, files>>

\* init_db of the three backends: clear the graph, create the folder, reset the counter
init_db(index, snapshot_subdir) ==
    /\ G' = EmptyGraph
    /\ current_folder_name' = <<snapshot_subdir, index>>
    /\ dirs' = dirs \cup {<<CreateRoot(db_choice), <<snapshot_subdir, index>>>>}
    /\ current_snapshot_id' = 0
    /\ kg_ret' = Ret("init", TRUE, PyNone, "", FALSE, 0)
    /\ UNCHANGED <<python_tool, State, db_choice, files>>

\* networkX KnowledgeGraph._export_db: can the snapshot file be opened
nx_export_ok == <<SnapRootKgot, current_folder_name>> \in dirs

nx_keep_partial(graph_copy, partial) == partial

\* the graph the in-memory write leaves behind when it fails
nx_revert(graph_copy, partial) == graph_copy

\* networkX KnowledgeGraph.write_query
nx_write_query(query) ==
    IF query = NoneQuery
    THEN /\ kg_ret' = Ret("write", FALSE, PyNone, "ValueError", FALSE, 0)
         /\ UNCHANGED <<G, current_snapshot_id, files>>
    ELSE LET graph_copy == G
             run == Exec(G, query)
         IN  IF run.raised \/ ~nx_export_ok
             THEN /\ G' = nx_revert(graph_copy, run.g)
                  /\ kg_ret' = Ret("write", FALSE, PyNone,
                                   IF run.raised THEN "script" ELSE "FileNotFoundError", FALSE, run.ran)
                  /\ UNCHANGED <<current_snapshot_id, files>>
             ELSE /\ G' = run.g
                  /\ files' = files \cup {<<SnapRootKgot, current_folder_name, current_snapshot_id>>}
                  /\ current_snapshot_id' = current_snapshot_id + 1
                  /\ kg_ret' = Ret("write", TRUE, PyNone, "", FALSE, run.ran)

\* networkX KnowledgeGraph.write_query interrupted after `ran` statements of the
\* script by an exception that is not an Exception (KeyboardInterrupt, a hard
\* cancellation): exec works on self.G itself, and the handler that puts
\* graph_copy back only catches Exception.  `completed` notes the graph the
\* write would have left had it not been interrupted.
nx_write_cancelled(query, ran) ==
    LET graph_copy == G
        done == Exec(G, SubSeq(query, 1, ran))
        whole == Exec(G, query)
    IN  /\ ~done.raised
        /\ G' = done.g
        /\ kg_ret' = [op |-> "write_cancelled", ok |-> FALSE, payload |-> PyNone,
                      err |-> "KeyboardInterrupt", raised |-> TRUE, ran |-> ran,
                      completed |-> IF whole.raised THEN graph_copy ELSE whole.g]
        /\ UNCHANGED <<python_tool, State, db_choice, current_snapshot_id, current_folder_name,
                       dirs, files>>

\* neo4j KnowledgeGraph.write_query: one transaction, then the APOC export
neo4j_write_query(query, env) ==
    IF query = NoneQuery
    THEN /\ kg_ret' = Ret("write", FALSE, PyNone, "ValueError", FALSE, 0)
         /\ UNCHANGED <<G, current_snapshot_id, files>>
    ELSE LET run == Exec(G, query)
         IN  IF env = "tx_unavailable"
             THEN /\ kg_ret' = Ret("write", FALSE, PyNone, "ServiceUnavailable", TRUE, 0)
                  /\ UNCHANGED <<G, current_snapshot_id, files>>
             ELSE IF run.raised \/ env = "tx_client_error"
             THEN /\ kg_ret' = Ret("write", FALSE, PyNone, "ClientError", FALSE, run.ran)
                  /\ UNCHANGED <<G, current_snapshot_id, files>>
             ELSE IF env = "ok"
             THEN /\ G' = run.g
                  /\ files' = files \cup {<<Neo4jImportRoot, current_folder_name, current_snapshot_id>>}
                  /\ current_snapshot_id' = current_snapshot_id + 1
                  /\ kg_ret' = Ret("write", TRUE, PyNone, "", FALSE, run.ran)
             ELSE /\ G' = run.g
                  /\ kg_ret' = Ret("write", FALSE, PyNone,
                                   IF env = "export_client_error" THEN "ExportClientError"
                                   ELSE "ServiceUnavailable",
                                   env = "export_unavailable", run.ran)
                  /\ UNCHANGED <<current_snapshot_id, files>>

\* does the triple-store write export a snapshot (the call is commented out)
rdf4j_exports == FALSE

\* rdf4j KnowledgeGraph.write_query
rdf4j_write_query(query, env) ==
    IF query = NoneQuery \/ query = <<>>
    THEN /\ kg_ret' = Ret("write", FALSE, PyNone, "ValueError", FALSE, 0)
         /\ UNCHANGED <<G, current_snapshot_id, files>>
    ELSE LET run == Exec(G, query)
         IN  IF env # "ok"
             THEN /\ kg_ret' = Ret("write", FALSE, PyNone, "URLError", FALSE, 0)
                  /\ UNCHANGED <<G, current_snapshot_id, files>>
             ELSE IF run.raised
             THEN /\ kg_ret' = Ret("write", FALSE, PyNone, "QueryBadFormed", FALSE, run.ran)
                  /\ UNCHANGED <<G, current_snapshot_id, files>>
             ELSE /\ G' = run.g
                  /\ kg_ret' = Ret("write", TRUE, PyNone, "", FALSE, run.ran)
                  /\ IF rdf4j_exports
                     THEN /\ files' = files \cup {<<".", current_folder_name, current_snapshot_id>>}
                          /\ current_snapshot_id' = current_snapshot_id + 1
                     ELSE UNCHANGED <<current_snapshot_id, files>>

\* write_query of the loaded backend
write_query(query, env) ==
    /\ IF db_choice = "networkX" THEN nx_write_query(query)
       ELSE IF db_choice = "neo4j" THEN neo4j_write_query(query, env)
       ELSE rdf4j_write_query(query, env)
    /\ UNCHANGED <<python_tool, State, db_choice, current_folder_name, dirs>>

\* global_scope.get("result") of the in-memory read
nx_result(res) ==
    IF res.k = 2 THEN PyList([i \in 1..res.n |-> PyStr("node")])
    ELSE IF res.k = 1 THEN PyList(<<>>)
    ELSE PyNone

nx_get_query_any_result(query) ==
    IF query = NoneQuery
    THEN /\ kg_ret' = Ret("read", FALSE, PyNone, "ValueError", FALSE, 0)
         /\ UNCHANGED G
    ELSE LET run == Exec(G, query)
         IN  /\ G' = run.g
             /\ kg_ret' = IF run.raised THEN Ret("read", FALSE, PyNone, "script", FALSE, 0)
                          ELSE Ret("read", TRUE, nx_result(run.result), "", FALSE, 0)

\* networkX KnowledgeGraph.get_query: the script runs on the live graph
nx_get_query(query) ==
    IF query = NoneQuery
    THEN /\ kg_ret' = Ret("read", FALSE, PyNone, "ValueError", FALSE, 0)
         /\ UNCHANGED G
    ELSE LET run == Exec(G, query)
         IN  /\ G' = run.g
             /\ kg_ret' = IF run.raised THEN Ret("read", FALSE, PyNone, "script", FALSE, 0)
                          ELSE IF nx_result(run.result) = PyNone
                          THEN Ret("read", FALSE, PyNone, "NameError", FALSE, 0)
                          ELSE Ret("read", TRUE, nx_result(run.result), "", FALSE, 0)

\* result.data() of the labeled-property read: a list of rows
neo4j_rows(res) ==
    IF res.k = 2 THEN PyList([i \in 1..res.n |-> PyDict(<<PyStr("node")>>)])
    ELSE IF res.k = 1 THEN PyList(<<PyDict(<<PyList(<<>>)>>)>>)
    ELSE IF res.k = 0 THEN PyList(<<PyDict(<<PyNone>>)>>)
    ELSE PyList(<<>>)

\* neo4j KnowledgeGraph.get_query: session.run in an auto-commit transaction
neo4j_get_query(query, tx) ==
    IF query = NoneQuery
    THEN /\ kg_ret' = Ret("read", FALSE, PyNone, "ValueError", FALSE, 0)
         /\ UNCHANGED G
    ELSE LET run == Exec(G, query)
         IN  IF tx = "unavailable"
             THEN /\ kg_ret' = Ret("read", FALSE, PyNone, "ServiceUnavailable", TRUE, 0)
                  /\ UNCHANGED G
             ELSE IF run.raised \/ tx = "client_error"
             THEN /\ kg_ret' = Ret("read", FALSE, PyNone, "ClientError", FALSE, 0)
                  /\ UNCHANGED G
             ELSE /\ G' = run.g
                  /\ kg_ret' = Ret("read", TRUE, neo4j_rows(run.result), "", FALSE, 0)

\* rdf4j KnowledgeGraph.get_query: the read endpoint answers with XML text
rdf4j_get_query(query, tx) ==
    /\ UNCHANGED G
    /\ IF query = NoneQuery \/ query = <<>>
       THEN kg_ret' = Ret("read", FALSE, PyNone, "ValueError", FALSE, 0)
       ELSE IF tx # "ok"
       THEN kg_ret' = Ret("read", FALSE, PyNone, "URLError", FALSE, 0)
       ELSE IF Exec(G, query).raised
       THEN kg_ret' = Ret("read", FALSE, PyNone, "QueryBadFormed", FALSE, 0)
       ELSE kg_ret' = Ret("read", TRUE, PyStr("xml"), "", FALSE, 0)

\* get_query of the loaded backend
get_query(query, tx) ==
    /\ IF db_choice = "networkX" THEN nx_get_query(query)
       ELSE IF db_choice = "neo4j" THEN neo4j_get_query(query, tx)
       ELSE rdf4j_get_query(query, tx)
    /\ UNCHANGED <<python_tool, State, db_choice, current_snapshot_id, current_folder_name, dirs, files>>

\* the text get_current_graph_state renders for a graph
Render(db, g) == [header |-> db, nodes |-> g.nodes, edges |-> g.edges]

\* get_current_graph_state of the loaded backend
get_current_graph_state(tx) ==
    /\ kg_ret' = IF tx = "ok" \/ db_choice = "networkX"
                 THEN Ret("render", TRUE, Render(db_choice, G), "", FALSE, 0)
                 ELSE IF db_choice = "rdf4j"
                 THEN Ret("render", TRUE, Render("Error fetching graph state", EmptyGraph), "", FALSE, 0)
                 ELSE Ret("render", FALSE, PyNone, "ServiceUnavailable", TRUE, 0)
    /\ UNCHANGED <<python_tool, State, db_choice, G, current_snapshot_id, current_folder_name, dirs, files>>

(***************************************************************************)
(* Tools, tool calls and the tool-result cache.                            *)
(***************************************************************************)
MaxToolRetries == 2
MaxBatch == 2

\* tool_names: the registered tools, keyed by lowercased name
RegisteredTools == {"llm_query", "extract_zip", "python_code_executor"}

\* str.lower on the tool names the oracle can spell
lower(name) ==
    IF name = "LLM_Query" THEN "llm_query"
    ELSE IF name = "Python_Code_Executor" THEN "python_code_executor"
    ELSE name

\* argument mappings, as the ordered key/value pairs of a Python dict
ArgsAB == <<<<"a", 1>>, <<"b", 2>>>>
ArgsBA == <<<<"b", 2>>, <<"a", 1>>>>
ArgsA == <<<<"a", 1>>>>

KeyRank(k) == IF k = "a" THEN 1 ELSE 2

\* json.dumps(tool_args, sort_keys=True): the pairs in key order
RECURSIVE json_dumps_sorted(_)
json_dumps_sorted(args) ==
    IF Len(args) <= 1 THEN args
    ELSE LET m == CHOOSE i \in 1..Len(args) :
                      \A j \in 1..Len(args) : KeyRank(args[i][1]) <= KeyRank(args[j][1])
             rest == [j \in 1..(Len(args) - 1) |-> IF j < m THEN args[j] ELSE args[j + 1]]
         IN  <<args[m]>> \o json_dumps_sorted(rest)

TC(name, args) == [name |-> name, args |-> args]

\* which call a tool call is: the lowercased name and the arguments as a mapping
CallId(tool_call) ==
    <<lower(tool_call.name), {tool_call.args[i] : i \in DOMAIN tool_call.args}>>

\* the tool calls the oracle can ask for in an insert branch
ToolCalls ==
    {TC("llm_query", ArgsAB), TC("LLM_Query", ArgsBA), TC("llm_query", ArgsA),
     TC("extract_zip", ArgsA), TC("ghost_tool", ArgsA)}

\* the tool call the oracle bound to the code executor asks for
MathToolCalls == {TC("Python_Code_Executor", ArgsA)}

\* the tool calls the oracle asks for while the controller loop is explored
CtlToolCalls == {TC("llm_query", ArgsA), TC("ghost_tool", ArgsA)}
CtlBatches == SeqsUpTo(CtlToolCalls, MaxBatch) \ {<<>>}
CtlToolOutputs == {"out1"}

ToolOutputs == {"out1", "out2"}
FailedMsg == "Tool invocation failed."
FailedAfterRetriesMsg == "Tool invocation failed after multiple retries"
NoOutput == "None"

\* what one attempt of a tool does: invoke(input=tool_args) returns, raises one
\* of the retried exceptions, raises another exception, or raises TypeError and
\* the tool is invoked again with the first argument value
AttemptOutcomes ==
    {"ok", "transient", "other",
     "TypeError:ok", "TypeError:transient", "TypeError:other"}
Behaviours == {b \in SeqsUpTo(AttemptOutcomes, MaxToolRetries) : Len(b) = MaxToolRetries}

attempt_ends_retrying_all(outcome) ==
    IF outcome \in {"ok", "TypeError:ok"} THEN "ok" ELSE "transient"

\* try: invoke(input=tool_args) except TypeError: invoke(first value)
attempt_ends(outcome) ==
    IF outcome \in {"ok", "TypeError:ok"} THEN "ok"
    ELSE IF outcome \in {"transient", "TypeError:transient"} THEN "transient"
    ELSE "other"

\* tenacity.stop_after_attempt(max_attempt_number), asked after a failed attempt
stop_after_attempt(max_attempt_number, attempt_number) ==
    attempt_number >= max_attempt_number

\* selected_tool.invoke calls made in one attempt: the mapping form, and the
\* first value alone after a TypeError of the mapping form
invokes_in(outcome) ==
    IF outcome \in {"TypeError:ok", "TypeError:transient", "TypeError:other"} THEN 2 ELSE 1

RECURSIVE invokes_upto(_, _)
invokes_upto(beh, attempt) ==
    IF attempt = 0 THEN 0 ELSE invokes_upto(beh, attempt - 1) + invokes_in(beh[attempt])

\* the attempts of the Retrying loop: [output, raised, attempts, invokes,
\* left_by].  With reraise=True the last transient exception itself leaves the
\* loop, so it is the handler of Exception, not the one of RetryError, that
\* answers.
RECURSIVE invoke_attempts(_, _, _)
invoke_attempts(beh, out, attempt) ==
    IF attempt_ends(beh[attempt]) = "ok"
    THEN [output |-> out, raised |-> FALSE, attempts |-> attempt,
          invokes |-> invokes_upto(beh, attempt), left_by |-> "return tool_output"]
    ELSE IF attempt_ends(beh[attempt]) = "other"
    THEN [output |-> FailedMsg, raised |-> TRUE, attempts |-> attempt,
          invokes |-> invokes_upto(beh, attempt), left_by |-> "except Exception (attempt)"]
    ELSE IF stop_after_attempt(MaxToolRetries, attempt)
    THEN [output |-> FailedAfterRetriesMsg, raised |-> TRUE, attempts |-> attempt,
          invokes |-> invokes_upto(beh, attempt), left_by |-> "except Exception (loop)"]
    ELSE invoke_attempts(beh, out, attempt + 1)

\* ControllerInterface._invoke_tool_with_retry
invoke_tool_with_retry(beh, out) == invoke_attempts(beh, out, 1)

\* what _invoke_tool_with_retry can hand back, over all the behaviours of a tool
ToolResultsOf(outs) ==
    {[output |-> r.output, raised |-> r.raised] :
        r \in {invoke_tool_with_retry(beh, out) : beh \in Behaviours, out \in outs}}
ToolResults == ToolResultsOf(ToolOutputs)
CtlToolResults == ToolResultsOf(CtlToolOutputs)

(***************************************************************************)
(* Oracle calls: llm_utils.invoke_with_retry.                              *)
(***************************************************************************)
MaxLlmRetries == 2

\* what one chain.invoke does: it returns, or raises
TransientLlmErrors ==
    {"InternalServerError", "APIConnectionError", "ConnectTimeout", "ReadTimeout"}
LlmOutcomes == {"ok"} \cup TransientLlmErrors \cup {"OutputParserException", "ValueError"}
LlmBehaviours == {b \in SeqsUpTo(LlmOutcomes, MaxLlmRetries) : Len(b) = MaxLlmRetries}
LlmResponse == "response"

retry_if_also_parse_failure(exception) ==
    exception \in TransientLlmErrors \cup {"OutputParserException"}

\* retry=retry_if_exception_type(InternalServerError) | ... | (httpx.ReadTimeout)
retry_if(exception) == exception \in TransientLlmErrors

\* stop=_get_llm_retries(): the stop condition handed to Retrying is the integer
\* itself, and Retrying calls its stop condition after a failed attempt that
\* is to be retried: 'int' object is not callable
llm_stop(num_retries, attempt_number) == "TypeError"

\* the attempts of the Retrying loop: [returned, output, error, attempts]
RECURSIVE llm_attempts(_, _, _)
llm_attempts(beh, num_retries, attempt) ==
    IF beh[attempt] = "ok"
    THEN [returned |-> TRUE, output |-> LlmResponse, error |-> "", attempts |-> attempt]
    ELSE IF ~retry_if(beh[attempt])
    THEN [returned |-> FALSE, output |-> "", error |-> beh[attempt], attempts |-> attempt]
    ELSE LET stop == llm_stop(num_retries, attempt)
         IN  IF stop = "TypeError"
             THEN [returned |-> FALSE, output |-> "", error |-> "TypeError",
                   attempts |-> attempt]
             ELSE IF stop = "stop"
             THEN [returned |-> FALSE, output |-> "", error |-> beh[attempt],
                   attempts |-> attempt]
             ELSE llm_attempts(beh, num_retries, attempt + 1)

\* invoke_with_retry(chain, ...): every exception is logged and raised again
invoke_with_retry(beh, num_retries) == llm_attempts(beh, num_retries, 1)

(***************************************************************************)
(* State of the controller.                                                *)
(***************************************************************************)
VARIABLES
    pc,                        \* where the run is
    runs,                      \* calls of run() so far
    max_iterations,
    num_next_steps_decision,
    tool_call_results_cache,
    ctl,                       \* locals of _iterative_next_step_logic
    ins,                       \* locals of _insert_logic
    rb,                        \* locals of _perform_retrieve_branch
    fin,                       \* locals of _retrieve_logic
    ret,                       \* what run() returned
    hist                       \* observations: last tool call, first outputs of the run,
                               \* an acknowledged write not rendered yet

ctlvars == <<pc, runs, max_iterations, num_next_steps_decision, tool_call_results_cache,
             ctl, ins, rb, fin, ret, hist>>

vars == <<kgvars, ctlvars>>

MaxIterations == 2
MaxVotes == 2
MaxRuns == 2
MaxQueries == 1
MaxRetrieveQueryRetry == 2
MaxCypherFixingRetry == 1
MaxFinalSolutionParsing == 1

\* what the oracle can answer
VoteKinds == {"INSERT", "RETRIEVE", "OTHER", "INSERT_CONTENT"}
OracleWriteQueries == {<<St("add_node", 1, 0)>>, <<St("raise", 0, 0)>>}
OracleReadQueries == {<<St("result", 2, 0)>>, <<St("raise", 0, 0)>>}
QueryLists == SeqsUpTo(OracleWriteQueries, MaxQueries)
Strings == {"", " ", "ans"}

\* str.strip
strip(str) == IF str = " " THEN "" ELSE str

\* the external outcomes under which a graph call returns to the controller
CtlWriteEnv == {"ok", "export_client_error"}
CtlReadEnv == {"ok"}

\* existing_entities_and_relationships = "": a view with no header and no content
EmptyView == [header |-> "", nodes |-> {}, edges |-> {}]

NewTally == [RETRIEVE |-> 0, INSERT |-> 0, RETRIEVE_CONTENT |-> <<>>, INSERT_CONTENT |-> <<>>]

NoCtl == [current_iteration |-> 0, retrieve_next_step |-> NewTally, i |-> 0,
          existing_entities_and_relationships |-> EmptyView,
          raw_solutions |-> <<>>, reason_to_insert |-> "", loop_entries |-> 0,
          retrieved |-> FALSE, query_type |-> ""]

NoIns == [tool_calls |-> <<>>, tools_results |-> <<>>, call_i |-> 0, queries |-> <<>>,
          q_i |-> 0, single_query |-> <<>>, write_ok |-> TRUE, retry_i |-> 0, writes |-> 0,
          abandoned |-> 0, renders |-> 0]

NoRb == [retrieve_queries |-> <<>>, rq_i |-> 0, retrieve_query |-> <<>>,
         get_ok |-> TRUE, get_payload |-> PyNone, solution |-> PyStr(""),
         retrieve_retry_i |-> 0, fix_retry_i |-> 0, solutions |-> <<>>, caller |-> "",
         reads |-> 0, executed |-> <<>>, fix_cypher |-> <<>>]

NoFin == [solutions |-> <<>>, array_parsed_solutions |-> <<>>, sol_i |-> 0, parse_i |-> 0,
          forced_retrieve |-> FALSE, forced_calls |-> 0, final_votes |-> 0,
          forced_solution |-> "", answer_by |-> "",
          forced_retrieve_calls |-> 0, forced_branch_runs |-> 0]

NoRet == [solution |-> "", iterations_taken |-> 0]

NoKey == <<"", <<>>>>

NoFirst == [call |-> TC("", <<>>), output |-> NoOutput]

NoCall == [call |-> TC("", <<>>), key |-> NoKey, invoked |-> FALSE, raised |-> FALSE,
           output |-> NoOutput, seen |-> FALSE, first |-> NoFirst]

NoRetry == [fn |-> "", beh |-> <<>>, out |-> "", num_retries |-> 0,
            result |-> [attempts |-> 0]]

NewHist == [last_call |-> NoCall, run_first |-> <<>>, cache_at_start |-> {},
            unrendered |-> FALSE, retry |-> NoRetry]

CtlIdle ==
    /\ pc = "idle"
    /\ runs = 0
    /\ tool_call_results_cache = <<>>
    /\ ctl = NoCtl
    /\ ins = NoIns
    /\ rb = NoRb
    /\ fin = NoFin
    /\ ret = NoRet
    /\ hist = NewHist

\* ControllerInterface.__init__ and Controller.__init__
Init ==
    /\ db_choice = "neo4j"
    /\ G \in {EmptyGraph, [nodes |-> {1}, edges |-> {}]}
    /\ current_snapshot_id = 0
    /\ current_folder_name = <<"", 0>>
    /\ dirs = {}
    /\ files = {}
    /\ kg_ret = Ret("new", TRUE, PyNone, "", FALSE, 0)
    /\ State = NoState
    /\ python_tool = NoPythonTool
    /\ max_iterations \in 1..MaxIterations
    /\ num_next_steps_decision \in 1..MaxVotes
    /\ CtlIdle

(***************************************************************************)
(* The outer loop: Controller._iterative_next_step_logic.                  *)
(***************************************************************************)
InsertPcs == {"define_tool_calls", "invoke_tools", "gen_queries", "write", "repair", "render"}
RetrievePcs == {"rb_for", "rb_while", "rb_fix", "rb_new"}
EndPcs == {"idle", "done", "aborted"}

\* ControllerInterface.run: clear the graph, then start the loop
Run ==
    /\ pc = "idle"
    /\ \E f \in Folders : init_db(f[2], f[1])
    /\ runs' = 1
    /\ ctl' = NoCtl
    /\ ins' = NoIns
    /\ rb' = NoRb
    /\ fin' = NoFin
    /\ ret' = NoRet
    /\ hist' = [NewHist EXCEPT !.cache_at_start = DOMAIN tool_call_results_cache]
    /\ pc' = "while"
    /\ UNCHANGED <<max_iterations, num_next_steps_decision, tool_call_results_cache>>

loop_continues_off_by_one(current_iteration) == current_iteration <= max_iterations

\* the guard of the outer loop
loop_continues(current_iteration) == current_iteration < max_iterations

\* while current_iteration < self.max_iterations
While ==
    /\ pc = "while"
    /\ IF loop_continues(ctl.current_iteration)
       THEN /\ ctl' = [ctl EXCEPT !.retrieve_next_step = NewTally, !.i = 0,
                                  !.reason_to_insert = "", !.query_type = "",
                                  !.loop_entries = @ + 1]
            /\ pc' = IF num_next_steps_decision > 0 THEN "vote" ELSE "decide"
       ELSE /\ ctl' = ctl
            /\ pc' = "finalize"
    /\ UNCHANGED <<kgvars, runs, max_iterations, num_next_steps_decision,
                   tool_call_results_cache, ins, rb, fin, ret, hist>>

\* one vote: retrieve_next_step[query_type] += 1 and the content appended;
\* an unknown key is a KeyError (caught), a *_CONTENT key a TypeError (not caught)
count_vote(tally, query_type, retrieve_query) ==
    IF query_type = "INSERT"
    THEN [tally EXCEPT !.INSERT = @ + 1, !.INSERT_CONTENT = Append(@, retrieve_query)]
    ELSE IF query_type = "RETRIEVE"
    THEN [tally EXCEPT !.RETRIEVE = @ + 1, !.RETRIEVE_CONTENT = Append(@, retrieve_query)]
    ELSE tally

Vote ==
    /\ pc = "vote"
    /\ \E query_type \in VoteKinds :
         \E retrieve_query \in (IF query_type = "RETRIEVE" THEN OracleReadQueries ELSE {"r"}) :
            IF query_type \in {"INSERT_CONTENT", "RETRIEVE_CONTENT"}
            THEN /\ pc' = "aborted"
                 /\ ctl' = [ctl EXCEPT !.query_type = query_type]
            ELSE /\ ctl' = [ctl EXCEPT
                              !.retrieve_next_step = count_vote(@, query_type, retrieve_query),
                              !.i = @ + 1, !.query_type = query_type]
                 /\ pc' = IF ctl.i + 1 < num_next_steps_decision THEN "vote" ELSE "decide"
    /\ UNCHANGED <<kgvars, runs, max_iterations, num_next_steps_decision,
                   tool_call_results_cache, ins, rb, fin, ret, hist>>

takes_retrieve_on_tie(tally) == tally.RETRIEVE >= tally.INSERT

\* if retrieve_next_step["RETRIEVE"] > retrieve_next_step["INSERT"]
takes_retrieve(tally) == tally.RETRIEVE > tally.INSERT

merges_unless_single(tally) == tally.INSERT # 1

\* if retrieve_next_step["INSERT"] > 1: merge_reasons_to_insert
merges(tally) == tally.INSERT > 1

\* what merge_reasons_to_insert answers
MergedReason == "merged"

Decide ==
    /\ pc = "decide"
    /\ IF takes_retrieve(ctl.retrieve_next_step)
       THEN /\ rb' = [NoRb EXCEPT !.retrieve_queries = ctl.retrieve_next_step.RETRIEVE_CONTENT,
                                  !.rq_i = 1, !.caller = "loop"]
            /\ ctl' = [ctl EXCEPT !.retrieved = TRUE, !.retrieve_next_step = NewTally, !.i = 0,
                                  !.query_type = ""]
            /\ pc' = "rb_for"
       ELSE /\ ctl' = [ctl EXCEPT !.retrieve_next_step = NewTally, !.i = 0,
                                  !.query_type = "",
                                  !.reason_to_insert =
                          IF merges(ctl.retrieve_next_step) THEN MergedReason
                          ELSE IF ctl.retrieve_next_step.INSERT > 0
                          THEN ctl.retrieve_next_step.INSERT_CONTENT[1]
                          ELSE ""]
            /\ rb' = rb
            /\ pc' = "define_tool_calls"
    /\ UNCHANGED <<kgvars, runs, max_iterations, num_next_steps_decision,
                   tool_call_results_cache, ins, fin, ret, hist>>

(***************************************************************************)
(* The insert branch: Controller._insert_logic and the tool invocation.    *)
(***************************************************************************)
DefineToolCalls ==
    /\ pc = "define_tool_calls"
    /\ \E tool_calls \in CtlBatches :
         ins' = [NoIns EXCEPT !.tool_calls = tool_calls]
    /\ pc' = "invoke_tools"
    /\ UNCHANGED <<kgvars, runs, max_iterations, num_next_steps_decision,
                   tool_call_results_cache, ctl, rb, fin, ret, hist>>

\* is the output stored under the key after an invocation
stores_output(tool_name, raised) == ~(tool_name = "extract_zip")

cache_never_hit(tool_call_key) == FALSE

\* does a lookup of the key answer the call without invoking the tool
cache_hit(tool_call_key) == tool_call_key \in DOMAIN tool_call_results_cache

\* the body of the loop of _invoke_tools_after_llm_response for one tool call;
\* r is what _invoke_tool_with_retry hands back if the tool is invoked
invoke_one(tool_call, r) ==
    LET tool_name == lower(tool_call.name)
        tool_call_key == <<tool_name, json_dumps_sorted(tool_call.args)>>
        seen == CallId(tool_call) \in DOMAIN hist.run_first
        first == IF seen THEN hist.run_first[CallId(tool_call)] ELSE NoFirst
        done(output, invoked, raised) ==
            hist' = [hist EXCEPT
                       !.last_call = [call |-> tool_call, key |-> tool_call_key,
                                      invoked |-> invoked, raised |-> raised,
                                      output |-> output, seen |-> seen, first |-> first],
                       !.run_first = IF seen \/ tool_name = "extract_zip" THEN @
                                     ELSE (CallId(tool_call) :>
                                             [call |-> tool_call, output |-> output]) @@ @]
    IN  IF cache_hit(tool_call_key)
        THEN /\ UNCHANGED tool_call_results_cache
             /\ done(tool_call_results_cache[tool_call_key], FALSE, FALSE)
        ELSE IF tool_name \in RegisteredTools
        THEN /\ tool_call_results_cache' =
                  IF stores_output(tool_name, r.raised)
                  THEN (tool_call_key :> r.output) @@ tool_call_results_cache
                  ELSE tool_call_results_cache
             /\ done(r.output, TRUE, r.raised)
        ELSE /\ UNCHANGED tool_call_results_cache
             /\ done(NoOutput, FALSE, FALSE)

next_tool_call_from_end(tool_calls, outputs) == Len(tool_calls) - Len(outputs)

\* for tool_call in tool_calls: the position of the call handled next
next_tool_call(tool_calls, outputs) == Len(outputs) + 1

InvokeTools ==
    /\ pc = "invoke_tools"
    /\ LET k == next_tool_call(ins.tool_calls, ins.tools_results)
           last == Len(ins.tools_results) + 1 = Len(ins.tool_calls)
       IN  /\ \E r \in CtlToolResults : invoke_one(ins.tool_calls[k], r)
           /\ ins' = [ins EXCEPT !.tools_results = Append(@, hist'.last_call.output),
                                 !.call_i = IF last THEN 1 ELSE @]
           /\ pc' = IF last THEN "gen_queries" ELSE "invoke_tools"
    /\ UNCHANGED <<kgvars, runs, max_iterations, num_next_steps_decision, ctl, rb, fin, ret>>

\* for call, result in zip(tool_calls, tools_results): the oracle writes the queries
GenQueries ==
    /\ pc = "gen_queries"
    /\ IF ins.call_i <= Len(ins.tool_calls)
       THEN /\ \E queries \in QueryLists :
                 /\ ins' = [ins EXCEPT !.queries = queries, !.q_i = 1]
                 /\ pc' = IF queries = <<>> THEN "render" ELSE "write"
            /\ ctl' = ctl
       ELSE /\ ins' = NoIns
            /\ ctl' = [ctl EXCEPT !.current_iteration = @ + 1, !.reason_to_insert = ""]
            /\ pc' = "while"
    /\ UNCHANGED <<kgvars, runs, max_iterations, num_next_steps_decision,
                   tool_call_results_cache, rb, fin, ret, hist>>

Write ==
    /\ pc = "write"
    /\ \E env \in CtlWriteEnv : write_query(ins.queries[ins.q_i], env)
    /\ ins' = [ins EXCEPT !.single_query = ins.queries[ins.q_i],
                          !.write_ok = kg_ret'.ok, !.retry_i = 0, !.writes = 1]
    /\ hist' = [hist EXCEPT !.unrendered = @ \/ kg_ret'.ok]
    /\ pc' = "repair"
    /\ UNCHANGED <<runs, max_iterations, num_next_steps_decision, tool_call_results_cache,
                   ctl, rb, fin, ret>>

repair_continues_one_more(write_ok, retry_i) == ~write_ok /\ retry_i <= MaxCypherFixingRetry

\* while not write_response[0] and retry_i < self.max_cypher_fixing_retry
repair_continues(write_ok, retry_i) == ~write_ok /\ retry_i < MaxCypherFixingRetry

\* one pass of the repair loop: fix_cypher, then the write of the repaired query
Repair ==
    /\ pc = "repair"
    /\ IF repair_continues(ins.write_ok, ins.retry_i)
       THEN /\ \E fixed \in OracleWriteQueries, env \in CtlWriteEnv :
                 /\ write_query(fixed, env)
                 /\ ins' = [ins EXCEPT !.single_query = fixed, !.write_ok = kg_ret'.ok,
                                       !.retry_i = @ + 1, !.writes = @ + 1]
            /\ hist' = [hist EXCEPT !.unrendered = @ \/ kg_ret'.ok]
            /\ pc' = "repair"
       ELSE /\ ins' = [ins EXCEPT !.q_i = @ + 1,
                                       !.abandoned = IF ins.write_ok THEN @ ELSE @ + 1]
            /\ pc' = IF ins.q_i + 1 <= Len(ins.queries) THEN "write" ELSE "render"
            /\ UNCHANGED <<kgvars, hist>>
    /\ UNCHANGED <<runs, max_iterations, num_next_steps_decision, tool_call_results_cache,
                   ctl, rb, fin, ret>>

call_after_next(call_i) == call_i + 2

\* for call, result in zip(tool_calls, tools_results): the pair handled after this one
next_call(call_i) == call_i + 1

graph_view_stale(rendered, previous) == previous

\* existing_entities_and_relationships = self.graph.get_current_graph_state()
graph_view(rendered, previous) == rendered

\* the render that ends the handling of one tool call
RenderView ==
    /\ pc = "render"
    /\ get_current_graph_state("ok")
    /\ ctl' = [ctl EXCEPT !.existing_entities_and_relationships = graph_view(kg_ret'.payload, @)]
    /\ hist' = [hist EXCEPT !.unrendered = FALSE]
    /\ ins' = [ins EXCEPT !.call_i = next_call(@), !.queries = <<>>, !.q_i = 0,
                          !.single_query = <<>>, !.write_ok = TRUE, !.retry_i = 0,
                          !.writes = 0, !.renders = @ + 1]
    /\ pc' = "gen_queries"
    /\ UNCHANGED <<runs, max_iterations, num_next_steps_decision, tool_call_results_cache,
                   rb, fin, ret>>

(***************************************************************************)
(* The retrieve branch: Controller._perform_retrieve_branch.               *)
(***************************************************************************)
\* for retrieve_query in retrieve_queries: the first read; after the last, return
RbFor ==
    /\ pc = "rb_for"
    /\ IF rb.rq_i <= Len(rb.retrieve_queries)
       THEN /\ \E env \in CtlReadEnv : get_query(rb.retrieve_queries[rb.rq_i], env)
            /\ rb' = [rb EXCEPT !.retrieve_query = rb.retrieve_queries[rb.rq_i],
                                !.get_ok = kg_ret'.ok, !.get_payload = kg_ret'.payload,
                                !.retrieve_retry_i = 0, !.fix_retry_i = 0, !.reads = 1,
                                !.executed = rb.retrieve_queries[rb.rq_i],
                                !.fix_cypher = <<>>]
            /\ pc' = "rb_while"
            /\ UNCHANGED <<ctl, fin>>
       ELSE /\ IF rb.caller = "loop"
               THEN /\ ctl' = [ctl EXCEPT !.raw_solutions = @ \o rb.solutions]
                    /\ fin' = fin
                    /\ pc' = "finalize"
               ELSE /\ fin' = [fin EXCEPT !.solutions = @ \o rb.solutions,
                                          !.forced_branch_runs = @ + 1]
                    /\ ctl' = ctl
                    /\ pc' = "fin_check"
            /\ rb' = NoRb
            /\ UNCHANGED kgvars
    /\ UNCHANGED <<runs, max_iterations, num_next_steps_decision, tool_call_results_cache,
                   ins, ret, hist>>

\* while (not get_result[1] or is_empty_solution(solution))
\*       and retrieve_retry_i < self.max_retrieve_query_retry
retrieve_continues(get_ok, solution, retrieve_retry_i) ==
    /\ ~get_ok \/ is_empty_solution(solution)
    /\ retrieve_retry_i < MaxRetrieveQueryRetry

RbWhile ==
    /\ pc = "rb_while"
    /\ IF retrieve_continues(rb.get_ok, rb.solution, rb.retrieve_retry_i)
       THEN /\ rb' = [rb EXCEPT !.retrieve_retry_i = @ + 1, !.fix_retry_i = 0]
            /\ pc' = "rb_fix"
       ELSE /\ rb' = [rb EXCEPT !.solutions = Append(@, rb.get_payload), !.rq_i = @ + 1]
            /\ pc' = "rb_for"
    /\ UNCHANGED <<kgvars, runs, max_iterations, num_next_steps_decision,
                   tool_call_results_cache, ctl, ins, fin, ret, hist>>

fix_continues_one_more(get_ok, solution, fix_retry_i) ==
    /\ ~get_ok
    /\ ~(get_ok /\ is_empty_solution(solution))
    /\ fix_retry_i <= MaxCypherFixingRetry

\* while not get_result[1] and not (get_result[1] and is_empty_solution(solution))
\*       and fix_retry_i < self.max_cypher_fixing_retry
fix_continues(get_ok, solution, fix_retry_i) ==
    /\ ~get_ok
    /\ ~(get_ok /\ is_empty_solution(solution))
    /\ fix_retry_i < MaxCypherFixingRetry

\* the inner loop: fix_cypher, then read the fixed query
RbFix ==
    /\ pc = "rb_fix"
    /\ IF fix_continues(rb.get_ok, rb.solution, rb.fix_retry_i)
       THEN /\ \E fixed \in OracleReadQueries, env \in CtlReadEnv :
                 /\ get_query(fixed, env)
                 /\ rb' = [rb EXCEPT !.retrieve_query = fixed, !.fix_retry_i = @ + 1,
                                     !.get_ok = kg_ret'.ok, !.get_payload = kg_ret'.payload,
                                     !.reads = @ + 1, !.executed = fixed,
                                     !.fix_cypher = <<rb.retrieve_query, kg_ret.err>>]
            /\ pc' = "rb_fix"
       ELSE /\ rb' = rb
            /\ pc' = "rb_new"
            /\ UNCHANGED kgvars
    /\ UNCHANGED <<runs, max_iterations, num_next_steps_decision, tool_call_results_cache,
                   ctl, ins, fin, ret, hist>>

needs_new_query_always(get_ok, solution) == TRUE

\* if not get_result[1] or is_empty_solution(solution)
needs_new_query(get_ok, solution) == ~get_ok \/ is_empty_solution(solution)

\* solution = get_result[0]; a new query from define_retrieve_query when still no answer
RbNew ==
    /\ pc = "rb_new"
    /\ IF needs_new_query(rb.get_ok, rb.get_payload)
       THEN \E new_query \in {<<St("result", 2, 0)>>,
                               <<St("result", 2, 0), St("raise", 0, 0)>>},
                 env \in CtlReadEnv :
                 /\ get_query(new_query, env)
                 /\ rb' = [rb EXCEPT !.solution = rb.get_payload,
                                     !.get_ok = kg_ret'.ok, !.get_payload = kg_ret'.payload,
                                     !.reads = @ + 1, !.executed = new_query]
       ELSE /\ rb' = [rb EXCEPT !.solution = rb.get_payload]
            /\ UNCHANGED kgvars
    /\ pc' = "rb_while"
    /\ UNCHANGED <<runs, max_iterations, num_next_steps_decision, tool_call_results_cache,
                   ctl, ins, fin, ret, hist>>

(***************************************************************************)
(* Finalization: Controller._retrieve_logic.                               *)
(***************************************************************************)
ForcedQueryListsAnyLength == SeqsUpTo(OracleReadQueries, MaxVotes)

\* for i in range(self.num_next_steps_decision): define_forced_retrieve_queries
ForcedQueryLists == {qs \in SeqsUpTo(OracleReadQueries, MaxVotes) : Len(qs) = num_next_steps_decision}

Finalize ==
    /\ pc = "finalize"
    /\ IF ctl.current_iteration = max_iterations /\ Len(ctl.raw_solutions) = 0
       THEN \E retrieve_queries \in ForcedQueryLists :
              /\ fin' = [NoFin EXCEPT !.forced_retrieve = TRUE,
                                       !.forced_retrieve_calls = Len(retrieve_queries)]
              /\ IF retrieve_queries # <<>>
                 THEN /\ rb' = [NoRb EXCEPT !.retrieve_queries = retrieve_queries,
                                            !.rq_i = 1, !.caller = "finalize"]
                      /\ pc' = "rb_for"
                 ELSE /\ rb' = rb
                      /\ pc' = "fin_check"
       ELSE /\ fin' = [NoFin EXCEPT !.solutions = ctl.raw_solutions]
            /\ rb' = rb
            /\ pc' = "fin_check"
    /\ UNCHANGED <<kgvars, runs, max_iterations, num_next_steps_decision,
                   tool_call_results_cache, ctl, ins, ret, hist>>

\* if not is_empty_solution(solutions)
FinCheck ==
    /\ pc = "fin_check"
    /\ IF ~is_empty_solution(PyList(fin.solutions))
       THEN /\ fin' = [fin EXCEPT !.sol_i = 1, !.array_parsed_solutions = <<>>]
            /\ pc' = "need_math"
       ELSE /\ fin' = fin
            /\ pc' = "forced_solution"
    /\ UNCHANGED <<kgvars, runs, max_iterations, num_next_steps_decision,
                   tool_call_results_cache, ctl, ins, rb, ret, hist>>

\* for sol in solutions: define_need_for_math_before_parsing, _get_math_response
NeedMath ==
    /\ pc = "need_math"
    /\ IF fin.sol_i <= Len(fin.solutions)
       THEN \E need_math \in BOOLEAN :
              /\ IF need_math
                 THEN \E tool_call \in MathToolCalls, r \in CtlToolResults :
                          invoke_one(tool_call, r)
                 ELSE UNCHANGED <<tool_call_results_cache, hist>>
              /\ fin' = [fin EXCEPT !.parse_i = 0]
              /\ pc' = IF MaxFinalSolutionParsing > 0 THEN "parse" ELSE "need_math"
       ELSE /\ UNCHANGED <<tool_call_results_cache, hist, fin>>
            /\ pc' = "parsed_check"
    /\ UNCHANGED <<kgvars, runs, max_iterations, num_next_steps_decision, ctl, ins, rb, ret>>

\* for i in range(self.max_final_solution_parsing): parse_solution_with_llm
Parse ==
    /\ pc = "parse"
    /\ \E parsed_sol \in Strings :
         fin' = [fin EXCEPT !.array_parsed_solutions = Append(@, parsed_sol),
                            !.parse_i = IF @ + 1 < MaxFinalSolutionParsing THEN @ + 1 ELSE 0,
                            !.sol_i = IF fin.parse_i + 1 < MaxFinalSolutionParsing THEN @ ELSE @ + 1]
    /\ pc' = IF fin.parse_i + 1 < MaxFinalSolutionParsing THEN "parse" ELSE "need_math"
    /\ UNCHANGED <<kgvars, runs, max_iterations, num_next_steps_decision,
                   tool_call_results_cache, ctl, ins, rb, ret, hist>>

returned_one_more(solution, current_iteration) ==
    [solution |-> solution, iterations_taken |-> current_iteration + 1]

\* return solution, current_iteration
returned(solution, current_iteration) ==
    [solution |-> solution, iterations_taken |-> current_iteration]

all_parsed_blank_some(array_parsed_solutions) ==
    \E k \in 1..Len(array_parsed_solutions) : strip(array_parsed_solutions[k]) = ""

\* all(not parsed_sol.strip() for parsed_sol in array_parsed_solutions if parsed_sol)
all_parsed_blank(array_parsed_solutions) ==
    \A k \in 1..Len(array_parsed_solutions) :
        array_parsed_solutions[k] # "" => strip(array_parsed_solutions[k]) = ""

\* the vote over the parsed solutions, or the forced solution when all are blank
ParsedCheck ==
    /\ pc = "parsed_check"
    /\ IF all_parsed_blank(fin.array_parsed_solutions)
       THEN /\ pc' = "forced_solution"
            /\ ret' = ret
            /\ fin' = fin
       ELSE /\ \E solution \in Strings :
                 ret' = returned(solution, ctl.current_iteration)
            /\ fin' = [fin EXCEPT !.final_votes = @ + 1, !.answer_by = "define_final_solution"]
            /\ pc' = "done"
    /\ UNCHANGED <<kgvars, runs, max_iterations, num_next_steps_decision,
                   tool_call_results_cache, ctl, ins, rb, hist>>

\* generate_forced_solution, then parse_solution_with_llm on the guess
ForcedSolution ==
    /\ pc = "forced_solution"
    /\ \E forced_solution \in Strings, solution \in Strings :
         /\ ret' = returned(solution, ctl.current_iteration)
         /\ fin' = [fin EXCEPT !.forced_calls = @ + 1, !.forced_solution = forced_solution,
                                !.answer_by = "parse_solution_with_llm"]
    /\ pc' = "done"
    /\ UNCHANGED <<kgvars, runs, max_iterations, num_next_steps_decision,
                   tool_call_results_cache, ctl, ins, rb, hist>>

Next ==
    \/ Run \/ While \/ Vote \/ Decide
    \/ DefineToolCalls \/ InvokeTools \/ GenQueries \/ Write \/ Repair \/ RenderView
    \/ RbFor \/ RbWhile \/ RbFix \/ RbNew
    \/ Finalize \/ FinCheck \/ NeedMath \/ Parse \/ ParsedCheck \/ ForcedSolution

Spec == Init /\ [][Next]_vars

(***************************************************************************)
(* Properties of the controller loop.                                      *)
(***************************************************************************)
\* C1: with every oracle, tool and graph call returning, a run only ever stops
\* by returning from finalization; it is never cut short before it.
C1_FinalizationAlwaysReached == pc \in EndPcs => pc \in {"idle", "done"}

\* C2: the iteration counter never exceeds max_iterations, and the
\* iterations_taken a run returns is at most max_iterations.
C2_IterationsBounded ==
    /\ ctl.current_iteration <= max_iterations
    /\ pc = "done" => ret.iterations_taken <= max_iterations

\* a run that used its whole budget on insert branches and returned
C2_Witness ==
    /\ pc = "done"
    /\ ~ctl.retrieved
    /\ ctl.loop_entries = max_iterations
    /\ ret.iterations_taken = max_iterations

\* C3: whatever the oracle answers, the answer a run returns is a non-empty string.
C3_AnswerNonEmpty == pc = "done" => ret.solution # ""

\* C4: an iteration takes the retrieve branch exactly when RETRIEVE has strictly
\* more votes than INSERT, and otherwise (ties and no valid vote included) the
\* insert branch; once the retrieve branch is taken the loop is not entered again.
C4_RetrieveIffStrictMajority ==
    [][/\ pc = "decide" =>
            /\ pc' \in RetrievePcs <=>
                   ctl.retrieve_next_step.RETRIEVE > ctl.retrieve_next_step.INSERT
            /\ pc' \in InsertPcs <=>
                   ctl.retrieve_next_step.RETRIEVE <= ctl.retrieve_next_step.INSERT
       /\ ctl.retrieved => pc' \notin ({"while", "vote", "decide"} \cup InsertPcs)]_vars

\* a single vote that is neither INSERT nor RETRIEVE: a tie at zero, insert branch taken
C4_Witness ==
    /\ num_next_steps_decision = 1
    /\ pc = "define_tool_calls"
    /\ ctl.reason_to_insert = ""
    /\ ~ctl.retrieved

\* the places where the oracle is handed the graph view: define_next_step,
\* define_tool_calls, the write-query generation, define_retrieve_query,
\* define_forced_retrieve_queries and generate_forced_solution
ViewPcs == {"vote", "define_tool_calls", "gen_queries", "rb_new", "finalize", "forced_solution"}

\* C12: whenever the oracle is handed the graph view, no acknowledged write is
\* newer than the last render, and the view is the rendering of the graph as the
\* writes of the run left it (the empty text as long as nothing was written).
C12_GraphViewFresh ==
    pc \in ViewPcs =>
        /\ ~hist.unrendered
        /\ IF ctl.existing_entities_and_relationships = EmptyView
           THEN current_snapshot_id = 0 /\ files = {}
           ELSE ctl.existing_entities_and_relationships = Render(db_choice, G)

\* the write-query generation for a second tool call, with the view showing the
\* node the writes for the first tool call added
C12_Witness ==
    /\ pc = "gen_queries"
    /\ ins.call_i = 2
    /\ ins.call_i <= Len(ins.tool_calls)
    /\ current_snapshot_id >= 1
    /\ ctl.existing_entities_and_relationships = Render(db_choice, G)
    /\ 1 \in G.nodes

\* C13: the reads issued for one candidate query of the retrieve branch never
\* number more than max_retrieve_query_retry * (max_cypher_fixing_retry + 1) + 1.
C13_ReadsPerCandidateBounded ==
    rb.reads <= MaxRetrieveQueryRetry * (MaxCypherFixingRetry + 1) + 1

\* a candidate accepted after the first read, every repaired read and every
\* fresh-query read were used
C13_Witness ==
    /\ pc = "rb_for"
    /\ rb.solutions # <<>>
    /\ rb.reads = MaxRetrieveQueryRetry * (MaxCypherFixingRetry + 1) + 1

\* C14: the writes issued for one write-query of an insert branch, the original
\* and its repaired versions, never number more than max_cypher_fixing_retry + 1,
\* and a repaired version is only written after a write that failed.
C14_WritesPerQueryBounded ==
    /\ [](ins.writes <= MaxCypherFixingRetry + 1)
    /\ [][(pc = "repair" /\ ins'.writes = ins.writes + 1) =>
             (kg_ret.op = "write" /\ ~kg_ret.ok)]_vars

\* the original write and every repaired write of one query failed
C14_Witness ==
    /\ pc = "repair"
    /\ ins.writes = MaxCypherFixingRetry + 1
    /\ MaxCypherFixingRetry >= 1
    /\ ~ins.write_ok

\* C16: a run calls the forced-solution oracle at most once; it calls it exactly
\* once when all collected retrieve payloads are empty or all parsed candidates
\* are blank, and then returns the formatter's output on the forced guess;
\* otherwise it does not call it and returns the output of the final-solution
\* vote.  With max_iterations = 1 and all retrieves empty the forced path is
\* taken exactly once.
C16_ForcedSolutionExactlyWhenNothingFound ==
    /\ fin.forced_calls <= 1
    /\ pc = "done" =>
         LET payloads_empty == is_empty_solution(PyList(fin.solutions))
             parsed_blank == \A k \in 1..Len(fin.array_parsed_solutions) :
                                 fin.array_parsed_solutions[k] \in {"", " "}
         IN  /\ (payloads_empty \/ parsed_blank) =>
                   /\ fin.forced_calls = 1
                   /\ fin.final_votes = 0
                   /\ fin.answer_by = "parse_solution_with_llm"
             /\ ~(payloads_empty \/ parsed_blank) =>
                   /\ fin.forced_calls = 0
                   /\ fin.final_votes = 1
                   /\ fin.answer_by = "define_final_solution"
             /\ (max_iterations = 1 /\ payloads_empty) => fin.forced_calls = 1

\* budget of one iteration spent on an insert, the forced retrieve read an
\* empty payload, and the forced guess was formatted into the answer
C16_Witness ==
    /\ pc = "done"
    /\ max_iterations = 1
    /\ fin.forced_retrieve
    /\ fin.solutions # <<>>
    /\ is_empty_solution(PyList(fin.solutions))
    /\ fin.forced_calls = 1
    /\ fin.answer_by = "parse_solution_with_llm"

\* C18: when a tool call names a tool that is not registered, its output is
\* None, the tool layer is not invoked, and the write-query step of that call is
\* skipped: the oracle writes no query for it and the graph gets no write.
C18_UnregisteredToolSkipped ==
    /\ (hist.last_call.call.name # "" /\ lower(hist.last_call.call.name) \notin RegisteredTools) =>
           /\ hist.last_call.output = NoOutput
           /\ ~hist.last_call.invoked
    /\ pc \in {"write", "repair"} =>
           /\ lower(ins.tool_calls[ins.call_i].name) \in RegisteredTools
           /\ ins.tools_results[ins.call_i] # NoOutput

\* C25: finalization asks the oracle for forced retrieve queries exactly when
\* the iterations taken equal max_iterations and no retrieve branch was taken:
\* it then makes exactly num_next_steps_decision forced_retrieve calls and runs
\* the retrieve branch on them once; otherwise it makes no such call.
C25_ForcedRetrieveExactlyOnExhaustedBudget ==
    pc \in {"fin_check", "need_math", "parse", "parsed_check", "forced_solution", "done"} =>
        IF ctl.current_iteration = max_iterations /\ ~ctl.retrieved
        THEN /\ fin.forced_retrieve_calls = num_next_steps_decision
             /\ fin.forced_branch_runs = 1
        ELSE /\ fin.forced_retrieve_calls = 0
             /\ fin.forced_branch_runs = 0

\* a run of two insert iterations whose finalization made two forced_retrieve
\* calls and ran the retrieve branch on them
C25_Witness ==
    /\ pc = "done"
    /\ max_iterations = 2
    /\ ret.iterations_taken = 2
    /\ num_next_steps_decision = 2
    /\ fin.forced_retrieve_calls = 2
    /\ fin.forced_branch_runs = 1
    /\ Len(fin.solutions) = 2

\* C26 as stated: on entering the insert branch the reason is the single INSERT
\* rationale when exactly one INSERT vote was cast, and otherwise the oracle's
\* merge of the INSERT rationales; the merge call is made exactly when the
\* number of INSERT votes differs from one.
C26_MergeUnlessSingleVote ==
    [][(pc = "decide" /\ pc' = "define_tool_calls") =>
          LET tally == ctl.retrieve_next_step
          IN  IF tally.INSERT = 1
              THEN ctl'.reason_to_insert = tally.INSERT_CONTENT[1]
              ELSE ctl'.reason_to_insert = MergedReason]_vars

\* C26: on entering the insert branch the merge call is made exactly when more
\* than one INSERT vote was cast and its result is the reason; with exactly one
\* INSERT vote the reason is that vote's rationale, and with none it is the
\* empty string, no merge being asked for.
C26_MergeWhenSeveralVotes ==
    [][(pc = "decide" /\ pc' = "define_tool_calls") =>
          LET tally == ctl.retrieve_next_step
          IN  IF tally.INSERT > 1
              THEN ctl'.reason_to_insert = MergedReason
              ELSE IF tally.INSERT = 1
              THEN ctl'.reason_to_insert = tally.INSERT_CONTENT[1]
              ELSE ctl'.reason_to_insert = ""]_vars

\* the insert branch entered although no vote was an INSERT: no merge, no reason
C26_Witness ==
    /\ pc = "define_tool_calls"
    /\ ctl.reason_to_insert = ""
    /\ num_next_steps_decision = 2

\* C27: a vote whose kind is any string other than INSERT or RETRIEVE is
\* discarded: both counters and both content lists stay as they were, the
\* remaining votes are still taken, and the run is not aborted.
C27_UnknownVoteDiscarded ==
    [][(pc = "vote" /\ ctl'.query_type \notin {"INSERT", "RETRIEVE"}) =>
          /\ ctl'.retrieve_next_step = ctl.retrieve_next_step
          /\ ctl'.i = ctl.i + 1
          /\ pc' = IF ctl'.i < num_next_steps_decision THEN "vote" ELSE "decide"]_vars

C31_RenderOncePerBatch ==
    /\ [][(pc \in InsertPcs /\ ins'.renders > ins.renders) =>
             /\ kg_ret'.op = "render"
             /\ pc = "render"
             /\ ins'.renders = ins.renders + 1
             /\ ins.renders = ins.call_i - 1
             /\ ins.q_i = Len(ins.queries) + 1
             /\ ~repair_continues(ins.write_ok, ins.retry_i)
             /\ ins'.call_i = ins.call_i + 1]_vars
    /\ [][(pc \in InsertPcs /\ pc # "render") =>
             (ins'.renders = ins.renders \/ pc' = "while")]_vars
    /\ [][(pc \in {"write", "repair"}) =>
             /\ pc' \in {"write", "repair", "render"}
             /\ pc' = "render" => ins'.q_i = Len(ins.queries) + 1]_vars
    /\ [][(pc \in InsertPcs /\ pc' = "while") =>
             ins.renders = Len(ins.tool_calls)]_vars

\* two tool calls were handled, the first with a repaired write, and the graph
\* was rendered twice
C31_Witness ==
    /\ pc = "gen_queries"
    /\ Len(ins.tool_calls) = 2
    /\ ins.call_i = 3
    /\ ins.renders = 2
    /\ current_snapshot_id >= 1
    /\ ins.abandoned >= 1

\* C32: in the retrieve branch every fix_cypher call is given the text of the
\* query executed most recently and the error that execution produced, also
\* after a query from define_retrieve_query has failed.
C32_FixGetsExecutedQuery ==
    [][(pc = "rb_fix" /\ rb'.fix_retry_i = rb.fix_retry_i + 1) =>
          /\ kg_ret.op = "read" /\ ~kg_ret.ok
          /\ rb'.fix_cypher = <<rb.executed, kg_ret.err>>]_vars

\* C35: in the retrieve branch, once a read for a candidate query has returned
\* success with a non-empty payload, no further read, fix_cypher or
\* define_retrieve_query call is made for that candidate and that payload is
\* the entry appended for it; the branch returns one entry per candidate
\* query, in candidate order.
C35_FoundPayloadIsFinal ==
    /\ [][(/\ pc \in {"rb_while", "rb_fix", "rb_new"}
           /\ rb.get_ok /\ ~is_empty_solution(rb.get_payload)) =>
             /\ kg_ret' = kg_ret /\ G' = G
             /\ rb'.reads = rb.reads
             /\ rb'.executed = rb.executed
             /\ rb'.fix_cypher = rb.fix_cypher
             /\ rb'.get_payload = rb.get_payload
             /\ pc' = "rb_for" => rb'.solutions = Append(rb.solutions, rb.get_payload)]_vars
    /\ [][(pc \in {"rb_for", "rb_while", "rb_fix", "rb_new"}) =>
             /\ Len(rb.solutions) = rb.rq_i - 1
             /\ rb'.solutions # rb.solutions =>
                   \/ pc = "rb_while" /\ rb'.rq_i = rb.rq_i + 1
                                      /\ rb'.solutions = Append(rb.solutions, rb.get_payload)
                   \/ pc = "rb_for" /\ pc' \notin {"rb_for", "rb_while", "rb_fix", "rb_new"}
                                    /\ Len(rb.solutions) = Len(rb.retrieve_queries)]_vars

\* the second candidate's first read found nodes while the solution left by
\* the first candidate was empty: the retry loop was entered, and no other
\* read was made before the payload is appended
C35_Witness ==
    /\ pc = "rb_new"
    /\ rb.rq_i = 2
    /\ Len(rb.solutions) = 1
    /\ rb.get_ok /\ ~is_empty_solution(rb.get_payload)
    /\ is_empty_solution(rb.solution)
    /\ rb.retrieve_retry_i = 1
    /\ rb.reads = 1

\* C15: a candidate whose read succeeded with an empty payload is only accepted
\* once max_retrieve_query_retry fresh-query retries were used for it.
C15_EmptyPayloadRetried ==
    [][(pc = "rb_while" /\ pc' = "rb_for" /\ rb.get_ok /\ is_empty_solution(rb.get_payload))
          => rb.retrieve_retry_i >= MaxRetrieveQueryRetry]_vars

\* C5 as claimed: the run returns iter+1, iter being the 0-based index of the
\* last iteration of the outer loop that was executed.
C5_ReturnsLastIndexPlusOne ==
    pc = "done" => ret.iterations_taken = (ctl.loop_entries - 1) + 1

\* C5 as amended: the run returns the number of insert branches completed, which
\* is i when the retrieve branch is taken in iteration index i, and
\* max_iterations when the budget is used up by insert branches.
C5_ReturnsCompletedInserts ==
    pc = "done" =>
        /\ ctl.retrieved => ret.iterations_taken = ctl.loop_entries - 1
        /\ ~ctl.retrieved => /\ ret.iterations_taken = max_iterations
                             /\ ctl.loop_entries = max_iterations

\* the retrieve branch taken in the second iteration (index 1): the run returns 1
C5_Witness ==
    /\ pc = "done"
    /\ ctl.retrieved
    /\ ctl.loop_entries = 2
    /\ ret.iterations_taken = 1

(***************************************************************************)
(* The graph store driven by an arbitrary caller.                          *)
(***************************************************************************)
KGInitState ==
    /\ db_choice \in Backends
    /\ G = EmptyGraph
    /\ current_snapshot_id = 0
    /\ current_folder_name = <<"", 0>>
    /\ dirs \in {{}, {<<SnapRootKgot, <<"", 0>>>>}}
    /\ files = {}
    /\ kg_ret = Ret("new", TRUE, PyNone, "", FALSE, 0)
    /\ State = NoState
    /\ python_tool = NoPythonTool
    /\ max_iterations = 1
    /\ num_next_steps_decision = 1
    /\ CtlIdle

KGInitDb ==
    /\ \E f \in Folders : init_db(f[2], f[1])
    /\ UNCHANGED ctlvars

KGWrite ==
    /\ current_snapshot_id < MaxSnapshots
    /\ \E q \in WriteQueries, env \in WriteEnv(db_choice) : write_query(q, env)
    /\ UNCHANGED ctlvars

KGWriteCancelled ==
    /\ db_choice = "networkX"
    /\ \E q \in WriteQueries \ {NoneQuery} :
         \E ran \in 0..Len(q) : nx_write_cancelled(q, ran)
    /\ UNCHANGED ctlvars

KGRead ==
    /\ \E q \in Queries, tx \in ReadEnv(db_choice) : get_query(q, tx)
    /\ UNCHANGED ctlvars

KGRender ==
    /\ \E tx \in ReadEnv(db_choice) \ {"client_error"} : get_current_graph_state(tx)
    /\ UNCHANGED ctlvars

NextKG == KGInitDb \/ KGWrite \/ KGWriteCancelled \/ KGRead \/ KGRender

SpecKG == KGInitState /\ [][NextKG]_vars

(***************************************************************************)
(* Properties of the graph store.                                          *)
(***************************************************************************)
\* C9: in each backend a write that returns success has advanced the snapshot
\* counter by exactly one and written the snapshot numbered with the previous
\* counter value; a write that returns failure leaves the counter as it was.
C9_SnapshotPerSuccessfulWrite ==
    [][(kg_ret'.op = "write" /\ ~kg_ret'.raised) =>
          IF kg_ret'.ok
          THEN /\ current_snapshot_id' = current_snapshot_id + 1
               /\ \E f \in files' :
                      f[2] = current_folder_name /\ f[3] = current_snapshot_id
          ELSE current_snapshot_id' = current_snapshot_id]_vars

\* C21: in every backend a connectivity error during a read or a write leaves
\* the graph store as an exception; it is never handed back as the failure
\* tuple that the controller's repair loop takes for a query to fix.
C21_ConnectivityErrorsPropagate ==
    (kg_ret.op \in {"read", "write"} /\ kg_ret.err \in {"ServiceUnavailable", "URLError"}) =>
        kg_ret.raised

\* C23: an in-memory write works on a deep copy that is swapped in only on
\* success, so whenever the write is left, a hard cancellation in the middle of
\* the script included, the live graph is the graph before the write or the
\* graph the completed write gives, never a partially written one.
C23_InMemoryWriteAtomic ==
    [][(db_choice = "networkX" /\ kg_ret'.op \in {"write", "write_cancelled"}) =>
          \/ G' = G
          \/ kg_ret'.op = "write" /\ kg_ret'.ok
          \/ kg_ret'.op = "write_cancelled" /\ G' = kg_ret'.completed]_vars

\* C24: after init the snapshot directory of the run exists and is the one the
\* following writes export into, so a write whose query executes without error
\* exports its snapshot under the current counter and returns success.
C24_InitCreatesExportDirectory ==
    [][(/\ kg_ret'.op = "write"
        /\ <<CreateRoot(db_choice), current_folder_name>> \in dirs
        /\ kg_ret'.err \in {"", "FileNotFoundError"}) =>
          /\ kg_ret'.ok
          /\ db_choice # "rdf4j" =>
                \E f \in files' : f[2] = current_folder_name /\ f[3] = current_snapshot_id]_vars

\* C11: whatever the graph and the snapshot counter were, a render that follows
\* init and is answered by the store gives the rendering of the empty graph (no
\* nodes, no relationships), and the snapshot counter is 0.
C11_InitThenRenderIsEmpty ==
    [][(kg_ret.op = "init" /\ kg_ret'.op = "render" /\ kg_ret'.ok
          /\ kg_ret'.payload.header = db_choice) =>
          /\ kg_ret'.payload = Render(db_choice, EmptyGraph)
          /\ kg_ret'.payload.nodes = {}
          /\ kg_ret'.payload.edges = {}
          /\ current_snapshot_id' = 0]_vars

\* a render of the empty graph with the counter back at 0 although a snapshot of
\* an earlier write is on disk
C11_Witness ==
    /\ kg_ret.op = "render"
    /\ kg_ret.payload = Render(db_choice, EmptyGraph)
    /\ current_snapshot_id = 0
    /\ files # {}

\* C10: an in-memory write that raises, in the script or in the export, returns
\* (False, error) and leaves the graph and the snapshot counter as before the call.
C10_InMemoryRollback ==
    [][(db_choice = "networkX" /\ kg_ret'.op = "write" /\ ~kg_ret'.ok) =>
          /\ ~kg_ret'.raised
          /\ kg_ret'.err # ""
          /\ G' = G
          /\ current_snapshot_id' = current_snapshot_id]_vars

\* C39: a labeled-property write that returns (False, error) has had no effect
\* on the graph, also when the failure comes from the snapshot export that
\* follows the write transaction: the stored nodes and edges are those from
\* before the call.
C39_FailedNeo4jWriteHasNoEffect ==
    [][(db_choice = "neo4j" /\ kg_ret'.op = "write" /\ ~kg_ret'.ok /\ ~kg_ret'.raised) =>
          G' = G]_vars

\* a script that raised after a statement of it had already changed the graph
C10_Witness ==
    /\ db_choice = "networkX"
    /\ kg_ret.op = "write"
    /\ ~kg_ret.ok
    /\ kg_ret.err = "script"
    /\ kg_ret.ran >= 1

(***************************************************************************)
(* The tool layer driven by successive runs of one controller: run() and   *)
(* _invoke_tools_after_llm_response, whoever calls it.                     *)
(***************************************************************************)
\* ControllerInterface.run, as far as the tool-result cache is concerned
ToolsRun ==
    /\ pc \in {"idle", "tools_ready"}
    /\ runs < MaxRuns
    /\ runs' = runs + 1
    /\ hist' = [NewHist EXCEPT !.cache_at_start = DOMAIN tool_call_results_cache]
    /\ pc' = "tools_ready"
    /\ UNCHANGED <<kgvars, max_iterations, num_next_steps_decision, tool_call_results_cache,
                   ctl, ins, rb, fin, ret>>

\* one pass of the loop of _invoke_tools_after_llm_response: the handler keeps
\* nothing but the cache between two tool calls, whichever caller listed them
ToolsInvoke ==
    /\ pc = "tools_ready"
    /\ \E tool_call \in ToolCalls \cup MathToolCalls, r \in ToolResults :
         invoke_one(tool_call, r)
    /\ UNCHANGED <<kgvars, pc, runs, max_iterations, num_next_steps_decision, ctl, ins, rb, fin, ret>>

NextTools == ToolsRun \/ ToolsInvoke

ToolsInit ==
    /\ KGInitState
    /\ db_choice = "neo4j"
    /\ dirs = {}

SpecTools == ToolsInit /\ [][NextTools]_vars

(***************************************************************************)
(* Properties of the tool-result cache.                                    *)
(***************************************************************************)
\* C6: within a run, a tool call that repeats an earlier one (same lowercased
\* name other than extract_zip, same arguments whatever their order) does not
\* invoke the tool and returns exactly what the first of them returned.
C6_RepeatedCallAnsweredFromCache ==
    (hist.last_call.seen /\ lower(hist.last_call.call.name) # "extract_zip") =>
        /\ ~hist.last_call.invoked
        /\ hist.last_call.output = hist.last_call.first.output

\* the same call spelled with another case and another key order, after the first
\* one invoked the tool
C6_Witness ==
    /\ hist.last_call.seen
    /\ hist.last_call.call = TC("LLM_Query", ArgsBA)
    /\ hist.last_call.first.call = TC("llm_query", ArgsAB)
    /\ hist.cache_at_start = {}
    /\ hist.last_call.output = "out2"

\* C7: an invocation leaves an entry in the cache exactly when the tool returned
\* without raising and is not extract_zip; no entry is ever keyed by extract_zip.
C7_EntryOnlyForSuccessfulCall ==
    /\ hist.last_call.invoked =>
          (hist.last_call.key \in DOMAIN tool_call_results_cache
             <=> (~hist.last_call.raised /\ hist.last_call.key[1] # "extract_zip"))
    /\ \A k \in DOMAIN tool_call_results_cache : k[1] # "extract_zip"

\* C8: at the start of every run the cache holds no entry.
C8_CacheEmptyAtRunStart == hist.cache_at_start = {}

(***************************************************************************)
(* Several controllers in one process: State.knowledge_graph is memoized   *)
(* on its arguments, so a controller gets the instance an earlier one made *)
(* with the same arguments.                                                *)
(***************************************************************************)
\* @functools.cache on State.knowledge_graph: the memo after a call with args
knowledge_graph(memo, args) ==
    IF args \in DOMAIN memo THEN memo ELSE (args :> NewInstance) @@ memo

\* Controller.__init__: self.graph = State.knowledge_graph(db_choice, uri, user, pwd)
NewController(c) ==
    /\ State.graph[c] = NoGraph
    /\ \E args \in CtorArgs :
         State' = [knowledge_graph |-> knowledge_graph(State.knowledge_graph, args),
                   graph |-> [State.graph EXCEPT ![c] = args],
                   by |-> c, op |-> "new"]
    /\ UNCHANGED <<python_tool, db_choice, G, current_snapshot_id, current_folder_name,
                   dirs, files, kg_ret, ctlvars>>

\* ControllerInterface.run of controller c: self.graph.init_db(index, snapshot_subdir)
SharedRun(c) ==
    /\ State.graph[c] # NoGraph
    /\ \E f \in Folders :
         State' = [State EXCEPT
                     !.knowledge_graph[State.graph[c]] =
                         [G |-> EmptyGraph, current_snapshot_id |-> 0,
                          current_folder_name |-> f],
                     !.by = c, !.op = "init"]
    /\ UNCHANGED <<python_tool, db_choice, G, current_snapshot_id, current_folder_name,
                   dirs, files, kg_ret, ctlvars>>

\* a write of controller c's insert branch: self.graph.write_query(single_query)
SharedWrite(c) ==
    /\ State.graph[c] # NoGraph
    /\ State.knowledge_graph[State.graph[c]].current_snapshot_id < MaxSnapshots
    /\ \E query \in WriteQueries \ {NoneQuery} :
         LET kg == State.knowledge_graph[State.graph[c]]
             run == Exec(kg.G, query)
         IN  State' = [State EXCEPT
                         !.knowledge_graph[State.graph[c]] =
                             IF run.raised THEN kg
                             ELSE [kg EXCEPT !.G = run.g, !.current_snapshot_id = @ + 1],
                         !.by = c, !.op = "write"]
    /\ UNCHANGED <<python_tool, db_choice, G, current_snapshot_id, current_folder_name,
                   dirs, files, kg_ret, ctlvars>>

NextShared ==
    \E c \in Controllers : NewController(c) \/ SharedRun(c) \/ SharedWrite(c)

SpecShared == ToolsInit /\ [][NextShared]_vars

(***************************************************************************)
(* Properties of controllers sharing a process.                            *)
(***************************************************************************)
\* C22: two controllers made in one process, also with identical backend
\* parameters, work on isolated graph-store state: an init or a write by one
\* never changes the graph content, the snapshot counter or the snapshot
\* folder the other one uses.
C22_ControllersIsolated ==
    [][\A c \in Controllers, d \in Controllers :
          (c # d /\ State'.by = c /\ State'.op \in {"init", "write"}
                 /\ State.graph[d] # NoGraph) =>
              State'.knowledge_graph[State.graph[d]] =
                  State.knowledge_graph[State.graph[d]]]_vars

(***************************************************************************)
(* utils.is_empty_solution on its own, over nested values.                 *)
(***************************************************************************)
\* dicts (by their values) and lists with up to MaxElems elements of S
Containers(S) ==
    {PyList(xs) : xs \in SeqsUpTo(S, MaxElems)} \cup {PyDict(xs) : xs \in SeqsUpTo(S, MaxElems)}

\* is_empty_solution applied to None, strings, a number, and containers
\* nested twice
IsEmptyCall ==
    /\ hist.retry = NoRetry
    /\ \E solution \in
           {PyNone, PyStr(""), PyStr("ans"), [t |-> "int", s |-> "0", v |-> <<>>]}
           \cup Containers({PyNone, PyStr("")} \cup Containers({PyNone, PyStr("")})) :
         hist' = [hist EXCEPT !.retry =
                    [fn |-> "is_empty_solution", beh |-> <<>>, out |-> "",
                     num_retries |-> 0,
                     result |-> [solution |-> solution,
                                 empty |-> is_empty_solution(solution)]]]
    /\ UNCHANGED <<kgvars, pc, runs, max_iterations, num_next_steps_decision,
                   tool_call_results_cache, ctl, ins, rb, fin, ret>>

SpecUtils == ToolsInit /\ [][IsEmptyCall]_vars

\* C33: is_empty_solution returns true exactly for None, the empty dict, the
\* empty list and dicts or lists whose values are recursively all empty, and
\* false for every other value, in particular for every string.
C33_EmptyExactlyWhenAllLeavesEmpty ==
    hist.retry.fn = "is_empty_solution" =>
        LET solution == hist.retry.result.solution
            empty == hist.retry.result.empty
            Container(v) == v.t \in {"dict", "list"}
            Empty0(v) == v = PyNone \/ (Container(v) /\ v.v = <<>>)
            Empty1(v) == v = PyNone \/ (Container(v) /\ \A i \in 1..Len(v.v) : Empty0(v.v[i]))
            Empty2(v) == v = PyNone \/ (Container(v) /\ \A i \in 1..Len(v.v) : Empty1(v.v[i]))
        IN  /\ empty <=> Empty2(solution)
            /\ solution \in {PyNone, PyDict(<<>>), PyList(<<>>)} => empty
            /\ solution.t \in {"str", "int"} => ~empty

\* a list holding a dict of None and an empty list was found empty
C33_Witness ==
    /\ hist.retry.fn = "is_empty_solution"
    /\ hist.retry.result.solution = PyList(<<PyDict(<<PyNone>>), PyList(<<>>)>>)
    /\ hist.retry.result.empty

(***************************************************************************)
(* One read of the in-memory graph store, from each graph one write leaves. *)
(***************************************************************************)
\* an in-memory store holding a graph that one write leaves
ReadInit ==
    /\ db_choice = "networkX"
    /\ G \in {Exec(EmptyGraph, q).g : q \in WriteQueries \ {NoneQuery}}
    /\ current_snapshot_id \in 0..MaxSnapshots
    /\ current_folder_name = <<"", 0>>
    /\ dirs = {<<SnapRootNeo4j, <<"", 0>>>>}
    /\ files = {<<SnapRootNeo4j, <<"", 0>>, i>> : i \in 0..(current_snapshot_id - 1)}
    /\ kg_ret = Ret("new", TRUE, PyNone, "", FALSE, 0)
    /\ State = NoState
    /\ python_tool = NoPythonTool
    /\ max_iterations = 1
    /\ num_next_steps_decision = 1
    /\ CtlIdle

ReadCall ==
    /\ hist.retry = NoRetry
    /\ \E query \in Queries :
         /\ get_query(query, "ok")
         /\ hist' = [hist EXCEPT !.retry =
                      [fn |-> "get_query", beh |-> query, out |-> "", num_retries |-> 0,
                       result |-> [G |-> G, current_snapshot_id |-> current_snapshot_id,
                                   files |-> files]]]
    /\ UNCHANGED <<pc, runs, max_iterations, num_next_steps_decision,
                   tool_call_results_cache, ctl, ins, rb, fin, ret>>

SpecRead == ReadInit /\ [][ReadCall]_vars

\* C34: an in-memory read returns (payload, True, None) exactly when the script
\* runs without raising and leaves `result` bound to a value other than None;
\* a None query, a raising script and a missing or None `result` give
\* (None, False, error); no read writes a snapshot or moves the snapshot counter.
C34_InMemoryReadResult ==
    hist.retry.fn = "get_query" =>
        LET query == hist.retry.beh
            before == hist.retry.result
            raises == \E i \in 1..Len(query) :
                         StmtRaises(ExecFrom(before.G, SubSeq(query, 1, i - 1), 1, Unbound).g,
                                    query[i])
            results == {i \in 1..Len(query) : query[i].op = "result"}
            last == CHOOSE i \in results : \A j \in results : j <= i
            bound == results # {} /\ query[last].a # 0
        IN  /\ kg_ret.op = "read"
            /\ ~kg_ret.raised
            /\ kg_ret.ok <=> (query # NoneQuery /\ ~raises /\ bound)
            /\ kg_ret.ok => (kg_ret.payload # PyNone /\ kg_ret.err = "")
            /\ ~kg_ret.ok => (kg_ret.payload = PyNone /\ kg_ret.err # "")
            /\ current_snapshot_id = before.current_snapshot_id
            /\ files = before.files

\* a read whose script bound `result` to None after adding a node: reported as failed
C34_Witness ==
    /\ hist.retry.fn = "get_query"
    /\ hist.retry.beh = <<St("add_node", 1, 0), St("result", 0, 0)>>
    /\ ~kg_ret.ok
    /\ kg_ret.err = "NameError"
    /\ current_snapshot_id = 1

\* C37: an in-memory read leaves the graph as it was before the call, whether
\* it succeeds or fails, also when the read script raises part-way.
C37_InMemoryReadKeepsGraph ==
    hist.retry.fn = "get_query" => G = hist.retry.result.G

(***************************************************************************)
(* The code executor tool: RunPythonCodeTool, one instance called in turn.  *)
(***************************************************************************)
\* what _run leaves and returns: the budget left, the posts and rewrites made,
\* the kind of payload
PyResult(times_to_fix, posts, rewrites, output) ==
    [times_to_fix |-> times_to_fix, posts |-> posts, rewrites |-> rewrites,
     output |-> output, raised |-> FALSE]

\* while not response.ok and self.try_to_fix and self.times_to_fix > 0,
\* entered after the k-th post
RECURSIVE fix_loop(_, _, _, _, _)
fix_loop(try_to_fix, times_to_fix, posts, fixes, k) ==
    IF posts[k] = "not_ok" /\ try_to_fix /\ times_to_fix > 0
    THEN IF fixes[k] = "raise"
         THEN PyResult(times_to_fix - 1, k, k - 1, "error")
         ELSE IF posts[k + 1] = "raise"
         THEN PyResult(times_to_fix - 1, k + 1, k, "error")
         ELSE fix_loop(try_to_fix, times_to_fix - 1, posts, fixes, k + 1)
    ELSE PyResult(times_to_fix, k, k - 1, IF posts[k] = "ok" THEN "json" ELSE "error")

\* RunPythonCodeTool.__init__
PythonToolNew ==
    /\ python_tool = NoPythonTool
    /\ \E try_to_fix \in BOOLEAN, times_to_fix \in 1..MaxTimesToFix :
         python_tool' = [try_to_fix |-> try_to_fix,
                         times_to_fix |-> IF try_to_fix THEN times_to_fix ELSE 0,
                         given |-> times_to_fix, calls |-> 0]
    /\ UNCHANGED <<State, db_choice, G, current_snapshot_id, current_folder_name, dirs,
                   files, kg_ret, ctlvars>>

\* RunPythonCodeTool._run, one call of the tool: posts are what the executor
\* answers to each post, fixes how each call of _fix_code ends
PythonToolRun ==
    /\ python_tool # NoPythonTool
    /\ python_tool.calls < MaxPythonCalls
    /\ \E posts \in {b \in SeqsUpTo({"ok", "not_ok", "raise"}, MaxTimesToFix + 1) :
                        Len(b) = MaxTimesToFix + 1},
          fixes \in {b \in SeqsUpTo({"fixed", "raise"}, MaxTimesToFix) :
                        Len(b) = MaxTimesToFix} :
         LET result == IF posts[1] = "raise"
                       THEN PyResult(python_tool.times_to_fix, 1, 0, "error")
                       ELSE fix_loop(python_tool.try_to_fix, python_tool.times_to_fix,
                                     posts, fixes, 1)
         IN  /\ python_tool' = [python_tool EXCEPT !.times_to_fix = result.times_to_fix,
                                                   !.calls = @ + 1]
             /\ hist' = [hist EXCEPT !.retry =
                          [fn |-> "_run", beh |-> <<posts, fixes>>, out |-> "",
                           num_retries |-> python_tool.given, result |-> result]]
    /\ UNCHANGED <<State, db_choice, G, current_snapshot_id, current_folder_name, dirs,
                   files, kg_ret, pc, runs, max_iterations, num_next_steps_decision,
                   tool_call_results_cache, ctl, ins, rb, fin, ret>>

SpecPython == ToolsInit /\ [][PythonToolNew \/ PythonToolRun]_vars

\* C38: the self-repair budget of the code executor is per call: a call with
\* repair enabled uses up to times_to_fix rewrites while the executor keeps
\* failing, whatever earlier calls of the same instance used; each call posts
\* at most times_to_fix + 1 times and returns a payload without raising.
C38_RepairBudgetPerCall ==
    hist.retry.fn = "_run" =>
        LET posts == hist.retry.beh[1]
            fixes == hist.retry.beh[2]
            R == hist.retry.num_retries
            result == hist.retry.result
        IN  /\ ~result.raised
            /\ result.output \in {"json", "error"}
            /\ result.posts <= R + 1
            /\ (/\ python_tool.try_to_fix
                /\ \A k \in 1..(R + 1) : posts[k] = "not_ok"
                /\ \A k \in 1..R : fixes[k] = "fixed") =>
                    (result.rewrites = R /\ result.posts = R + 1)

(***************************************************************************)
(* The handling of one candidate query in _perform_retrieve_branch, as a    *)
(* function of the value `solution` holds on entry and of what the reads    *)
(* return.                                                                  *)
(***************************************************************************)
\* what a read can return: failure, success with no rows, success with a row
ReadResults ==
    {[ok |-> FALSE, payload |-> PyNone],
     [ok |-> TRUE, payload |-> PyList(<<>>)],
     [ok |-> TRUE, payload |-> PyList(<<PyDict(<<PyStr("node")>>)>>)]}

\* the inner while of one candidate: fix_cypher, then the read of the fixed query
RECURSIVE candidate_fix(_, _, _)
candidate_fix(st, results, fix_retry_i) ==
    IF fix_continues(st.get.ok, st.solution, fix_retry_i)
    THEN candidate_fix([st EXCEPT !.get = results[st.n + 1], !.n = @ + 1,
                                  !.calls = @ \o <<"fix_cypher", "get_query">>],
                       results, fix_retry_i + 1)
    ELSE st

\* the outer while of one candidate, up to solutions.append(get_result[0]):
\* the inner while, solution = get_result[0], then define_retrieve_query and
\* its read when needed
RECURSIVE candidate_while(_, _, _)
candidate_while(st, results, retrieve_retry_i) ==
    IF retrieve_continues(st.get.ok, st.solution, retrieve_retry_i)
    THEN LET fx == candidate_fix(st, results, 0)
             nw == IF needs_new_query(fx.get.ok, fx.get.payload)
                   THEN [fx EXCEPT !.solution = fx.get.payload,
                                   !.get = results[fx.n + 1], !.n = @ + 1,
                                   !.calls = @ \o <<"define_retrieve_query", "get_query">>]
                   ELSE [fx EXCEPT !.solution = fx.get.payload]
         IN  candidate_while(nw, results, retrieve_retry_i + 1)
    ELSE [calls |-> st.calls, entry |-> st.get.payload, solution |-> st.solution]

\* one pass of `for retrieve_query in retrieve_queries`
candidate(solution, results) ==
    candidate_while([get |-> results[1], n |-> 1, solution |-> solution,
                     calls |-> <<"get_query">>], results, 0)

\* one candidate handled twice on the same read results: `solution` on entry
\* is "" before the first candidate and the payload of an earlier read afterwards
CandidateCall ==
    /\ hist.retry = NoRetry
    /\ \E results \in {b \in SeqsUpTo(ReadResults,
                                       1 + MaxRetrieveQueryRetry * (MaxCypherFixingRetry + 1)) :
                          Len(b) = 1 + MaxRetrieveQueryRetry * (MaxCypherFixingRetry + 1)},
          one \in {PyStr("")} \cup {r.payload : r \in ReadResults},
          other \in {PyStr("")} \cup {r.payload : r \in ReadResults} :
         hist' = [hist EXCEPT !.retry =
                    [fn |-> "_perform_retrieve_branch", beh |-> results, out |-> "",
                     num_retries |-> MaxRetrieveQueryRetry,
                     result |-> [one |-> candidate(one, results),
                                 other |-> candidate(other, results),
                                 on_entry |-> <<one, other>>]]]
    /\ UNCHANGED <<kgvars, pc, runs, max_iterations, num_next_steps_decision,
                   tool_call_results_cache, ctl, ins, rb, fin, ret>>

SpecCandidate == ToolsInit /\ [][CandidateCall]_vars

\* C36: the handling of a candidate query depends only on its own read
\* results: two retrieve branches in which the candidate sees the same read
\* results make the same get_query, fix_cypher and define_retrieve_query
\* calls for it and append the same entry, whatever the earlier candidates
\* returned.
C36_CandidateIndependentOfEarlier ==
    hist.retry.fn = "_perform_retrieve_branch" =>
        /\ hist.retry.result.one.calls = hist.retry.result.other.calls
        /\ hist.retry.result.one.entry = hist.retry.result.other.entry

(***************************************************************************)
(* The two retry wrappers on their own: one call of the tool invoker or of *)
(* the oracle wrapper, over every behaviour of the callee.                 *)
(***************************************************************************)
InvokerCall ==
    /\ \E beh \in Behaviours, out \in ToolOutputs :
         hist' = [hist EXCEPT !.retry =
                    [fn |-> "_invoke_tool_with_retry", beh |-> beh, out |-> out,
                     num_retries |-> MaxToolRetries,
                     result |-> invoke_tool_with_retry(beh, out)]]
    /\ UNCHANGED <<kgvars, pc, runs, max_iterations, num_next_steps_decision,
                   tool_call_results_cache, ctl, ins, rb, fin, ret>>

LlmCall ==
    /\ \E beh \in LlmBehaviours, num_retries \in 1..MaxLlmRetries :
         hist' = [hist EXCEPT !.retry =
                    [fn |-> "invoke_with_retry", beh |-> beh, out |-> LlmResponse,
                     num_retries |-> num_retries,
                     result |-> invoke_with_retry(beh, num_retries)]]
    /\ UNCHANGED <<kgvars, pc, runs, max_iterations, num_next_steps_decision,
                   tool_call_results_cache, ctl, ins, rb, fin, ret>>

SpecRetry == ToolsInit /\ [][InvokerCall \/ LlmCall]_vars

(***************************************************************************)
(* Properties of the retry wrappers.                                       *)
(***************************************************************************)
\* C17: the tool invoker returns the tool's output when an attempt succeeds;
\* when an attempt raises an exception that is neither transient nor the
\* first-form type mismatch it stops without further attempts and returns
\* exactly "Tool invocation failed."; when all max_tool_retries attempts end in
\* transient errors it returns exactly
\* "Tool invocation failed after multiple retries.".
C17_InvokerSentinels ==
    hist.retry.fn = "_invoke_tool_with_retry" =>
        LET beh == hist.retry.beh
            result == hist.retry.result
            Transient == {"transient", "TypeError:transient"}
            Succeeds == {"ok", "TypeError:ok"}
            settled == {k \in 1..MaxToolRetries : beh[k] \notin Transient}
        IN  IF settled = {}
            THEN /\ result.output = "Tool invocation failed after multiple retries."
                 /\ result.attempts = MaxToolRetries
            ELSE LET k == CHOOSE i \in settled : \A j \in settled : i <= j
                 IN  /\ result.attempts = k
                     /\ IF beh[k] \in Succeeds
                        THEN result.output = hist.retry.out
                        ELSE result.output = "Tool invocation failed."

\* C29: the tool invoker never lets an exception of a tool reach the
\* controller; it makes at most max_tool_retries attempts per call, each of at
\* most two calls of the tool (the mapping form and, only after a type mismatch
\* of that form, the single positional value), and starts a new attempt only
\* after a transient error.
C29_InvokerContainsAndBoundsAttempts ==
    hist.retry.fn = "_invoke_tool_with_retry" =>
        LET beh == hist.retry.beh
            result == hist.retry.result
            Mismatch == {"TypeError:ok", "TypeError:transient", "TypeError:other"}
            twice == Cardinality({k \in 1..result.attempts : beh[k] \in Mismatch})
        IN  /\ result.left_by \in {"return tool_output", "except Exception (attempt)",
                                   "except Exception (loop)"}
            /\ result.output \in ToolOutputs \cup
                   {"Tool invocation failed.", "Tool invocation failed after multiple retries",
                    "Tool invocation failed after multiple retries."}
            /\ result.attempts >= 1
            /\ result.attempts <= MaxToolRetries
            /\ result.invokes = result.attempts + twice
            /\ result.invokes <= 2 * result.attempts
            /\ \A k \in 1..(result.attempts - 1) :
                   beh[k] \in {"transient", "TypeError:transient"}

\* both attempts fell back to the positional form: the first ended in a
\* timeout, the second returned
C29_Witness ==
    /\ hist.retry.fn = "_invoke_tool_with_retry"
    /\ hist.retry.beh = <<"TypeError:transient", "TypeError:ok">>
    /\ hist.retry.result.attempts = 2
    /\ hist.retry.result.invokes = 4
    /\ hist.retry.result.output = hist.retry.out

\* C19: invoke_with_retry re-invokes the chain after each transient error
\* (internal-server, API-connection, connect-timeout, read-timeout) until an
\* attempt succeeds or max_llm_retries attempts have been made, and then
\* surfaces that transient error; an error of any other kind surfaces after
\* exactly one attempt.
C19_TransientLlmErrorsRetried ==
    hist.retry.fn = "invoke_with_retry" =>
        LET beh == hist.retry.beh
            result == hist.retry.result
            max_llm_retries == hist.retry.num_retries
            settled == {k \in 1..max_llm_retries : beh[k] \notin TransientLlmErrors}
        IN  IF settled = {}
            THEN /\ ~result.returned
                 /\ result.error = beh[max_llm_retries]
                 /\ result.attempts = max_llm_retries
            ELSE LET k == CHOOSE i \in settled : \A j \in settled : i <= j
                 IN  /\ result.attempts = k
                     /\ IF beh[k] = "ok"
                        THEN result.returned /\ result.output = LlmResponse
                        ELSE ~result.returned /\ result.error = beh[k]

====
